---- MODULE Spec2Model ----
(***************************************************************************)
(* A model of pdf2markdown.py: main -> process_pdf -> pdf_to_images, then  *)
(* for every page image_to_base64 -> transcribe_image, then the join and   *)
(* the write of the output file.                                           *)
(*                                                                         *)
(* Python strings are sequences of one-character strings, bytes are        *)
(* sequences of numbers in 0..255, None is the empty tuple and a present   *)
(* value x is the one-element tuple <<x>>.                                 *)
(***************************************************************************)
EXTENDS Integers, Sequences, FiniteSets, TLC

\* The largest number of pages a document of the model has.
MaxPages == 3

None == <<>>
Some(x) == <<x>>

\* ------------------------------------------------------------------------
\* Text helpers
\* ------------------------------------------------------------------------

Digit(d) == <<"0", "1", "2", "3", "4", "5", "6", "7", "8", "9">>[d + 1]

RECURSIVE Str(_)
\* str(n) of a non-negative int: its decimal digits.
Str(n) == IF n < 10 THEN <<Digit(n)>> ELSE Str(n \div 10) \o <<Digit(n % 10)>>

\* s * n for a one-character string s.
Repeat(c, n) == [k \in 1..n |-> c]

\* sub occurs in s as a contiguous slice.
Contains(s, sub) ==
    \E k \in 0..(Len(s) - Len(sub)) : SubSeq(s, k + 1, k + Len(sub)) = sub

\* s starts with pre.
StartsWith(s, pre) == Len(pre) <= Len(s) /\ SubSeq(s, 1, Len(pre)) = pre

\* ------------------------------------------------------------------------
\* Configuration (module level constants of the script)
\* ------------------------------------------------------------------------

ANTHROPIC_API_URL == "https://api.anthropic.com/v1/messages"
ANTHROPIC_VERSION == "2023-06-01"
MODEL == "claude-sonnet-4-5"
MAX_TOKENS == 4096

\* The width of the separator line, '=' * 80.
SeparatorWidth == 80

\* ------------------------------------------------------------------------
\* image_to_base64
\* ------------------------------------------------------------------------

B64Alphabet ==
    <<"A", "B", "C", "D", "E", "F", "G", "H", "I", "J", "K", "L", "M",
      "N", "O", "P", "Q", "R", "S", "T", "U", "V", "W", "X", "Y", "Z",
      "a", "b", "c", "d", "e", "f", "g", "h", "i", "j", "k", "l", "m",
      "n", "o", "p", "q", "r", "s", "t", "u", "v", "w", "x", "y", "z",
      "0", "1", "2", "3", "4", "5", "6", "7", "8", "9", "+", "/">>

B64Char(v) == B64Alphabet[v + 1]

RECURSIVE b64encode(_)
\* base64.b64encode(bytes).decode('utf-8'): three bytes make four characters,
\* a last group of one or two bytes is padded with '='.
b64encode(bytes) ==
    IF Len(bytes) = 0 THEN <<>>
    ELSE IF Len(bytes) = 1 THEN
        <<B64Char(bytes[1] \div 4), B64Char((bytes[1] % 4) * 16), "=", "=">>
    ELSE IF Len(bytes) = 2 THEN
        <<B64Char(bytes[1] \div 4),
          B64Char((bytes[1] % 4) * 16 + bytes[2] \div 16),
          B64Char((bytes[2] % 16) * 4), "=">>
    ELSE
        <<B64Char(bytes[1] \div 4),
          B64Char((bytes[1] % 4) * 16 + bytes[2] \div 16),
          B64Char((bytes[2] % 16) * 4 + bytes[3] \div 64),
          B64Char(bytes[3] % 64)>>
        \o b64encode(SubSeq(bytes, 4, Len(bytes)))

\* image.save(buffered, format="PNG"): the PNG signature bytes, then the
\* bitmap's data (the encoder of the imaging library is not part of the script).
SavePNG(image) == <<137, 80, 78, 71>> \o image

image_to_base64(image) == b64encode(SavePNG(image))

\* ------------------------------------------------------------------------
\* bytes.decode('utf-8')
\* ------------------------------------------------------------------------

\* The characters of the code points 97..122, in order.
Lowercase ==
    <<"a", "b", "c", "d", "e", "f", "g", "h", "i", "j", "k", "l", "m",
      "n", "o", "p", "q", "r", "s", "t", "u", "v", "w", "x", "y", "z">>

\* The bytes of the model are 32, 97..122 (one byte, one character) and 255,
\* which no UTF-8 text contains.
IsAscii(b) == b = 32 \/ (b >= 97 /\ b <= 122)

Chr(b) == IF b = 32 THEN " " ELSE Lowercase[b - 96]

\* bytes.decode('utf-8'): Some(text), or None where Python raises
\* UnicodeDecodeError.
Utf8Decode(bytes) ==
    IF \A k \in 1..Len(bytes) : IsAscii(bytes[k])
    THEN Some([k \in 1..Len(bytes) |-> Chr(bytes[k])])
    ELSE None

\* ------------------------------------------------------------------------
\* transcribe_image
\* ------------------------------------------------------------------------

\* What urlopen(req) and the reading of its response come to:
\*   kind "json": a 2xx response whose body parsed to a JSON object; content is
\*                None (no 'content' key) or Some(list of blocks), a block's
\*                text is None (no 'text' key) or Some(string);
\*   kind "http": urllib.error.HTTPError with a status code and body bytes;
\*   kind "exc":  any other exception, str(e) = msg.
JsonResponse(content) ==
    [kind |-> "json", content |-> content, code |-> 200, body |-> <<>>, msg |-> <<>>]
HttpError(code, body) ==
    [kind |-> "http", content |-> None, code |-> code, body |-> body, msg |-> <<>>]
OtherException(msg) ==
    [kind |-> "exc", content |-> None, code |-> 0, body |-> <<>>, msg |-> msg]

Block(text) == [text |-> text]

Return(value) == [raised |-> FALSE, exc |-> "", value |-> value]
Raise(exc) == [raised |-> TRUE, exc |-> exc, value |-> <<>>]

\* f"Error: Unexpected response format for page {page_num}"
UnexpectedFormat(page_num) ==
    <<"E", "r", "r", "o", "r", ":", " ", "U", "n", "e", "x", "p", "e", "c", "t",
      "e", "d", " ", "r", "e", "s", "p", "o", "n", "s", "e", " ", "f", "o", "r",
      "m", "a", "t", " ", "f", "o", "r", " ", "p", "a", "g", "e", " ">>
    \o Str(page_num)

\* f"Error transcribing page {page_num}: {detail}"
ErrorTranscribing(page_num, detail) ==
    <<"E", "r", "r", "o", "r", " ", "t", "r", "a", "n", "s", "c", "r", "i", "b",
      "i", "n", "g", " ", "p", "a", "g", "e", " ">>
    \o Str(page_num) \o <<":", " ">> \o detail

\* str(KeyError('text'))
KeyErrorText == <<"'", "t", "e", "x", "t", "'">>

\* The request transcribe_image builds for one encoded page.
Request(data, key) ==
    [url |-> ANTHROPIC_API_URL, method |-> "POST",
     api_key |-> key, version |-> ANTHROPIC_VERSION,
     model |-> MODEL, max_tokens |-> MAX_TOKENS,
     media_type |-> "image/png", data |-> data]

\* transcribe_image without its last handler ("except Exception"): what is
\* no HTTPError leaves the function.
transcribe_image_no_catch_all(resp, page_num) ==
    IF resp.kind = "json" THEN
        IF resp.content # None /\ Len(resp.content[1]) > 0 THEN
            LET first == resp.content[1][1] IN
            IF first.text # None
            THEN Return(first.text[1])
            ELSE Raise("KeyError")
        ELSE Return(UnexpectedFormat(page_num))
    ELSE IF resp.kind = "http" THEN
        LET error_body == Utf8Decode(resp.body) IN
        IF error_body = None
        THEN Raise("UnicodeDecodeError")
        ELSE Return(ErrorTranscribing(page_num,
                 Str(resp.code) \o <<" ", "-", " ">> \o error_body[1]))
    ELSE Raise("Exception")

\* The try block of transcribe_image and its two handlers, given what the
\* request came to. The decode of the error body happens inside the
\* HTTPError handler, so a failure of it is caught by no handler.
transcribe_image(resp, page_num) ==
    IF resp.kind = "json" THEN
        IF resp.content # None /\ Len(resp.content[1]) > 0 THEN
            LET first == resp.content[1][1] IN
            IF first.text # None
            THEN Return(first.text[1])
            ELSE Return(ErrorTranscribing(page_num, KeyErrorText))
        ELSE Return(UnexpectedFormat(page_num))
    ELSE IF resp.kind = "http" THEN
        LET error_body == Utf8Decode(resp.body) IN
        IF error_body = None
        THEN Raise("UnicodeDecodeError")
        ELSE Return(ErrorTranscribing(page_num,
                 Str(resp.code) \o <<" ", "-", " ">> \o error_body[1]))
    ELSE Return(ErrorTranscribing(page_num, resp.msg))

\* ------------------------------------------------------------------------
\* pathlib
\* ------------------------------------------------------------------------

\* The last position of character c in s, 0 when there is none.
LastIndex(s, c) ==
    LET at == {k \in 1..Len(s) : s[k] = c} IN
    IF at = {} THEN 0 ELSE CHOOSE k \in at : \A j \in at : j <= k

\* PurePath.name: the last component of the path.
PathName(path) == SubSeq(path, LastIndex(path, "/") + 1, Len(path))

\* PurePath.suffix: from the last dot of the name, unless the name starts or
\* ends with it.
PathSuffix(path) ==
    LET name == PathName(path)
        dot == LastIndex(name, ".")
    IN  IF 1 < dot /\ dot < Len(name) THEN SubSeq(name, dot, Len(name)) ELSE <<>>

\* with_suffix that appends the suffix to the whole name.
with_suffix_appended(path, suffix) == path \o suffix

\* PurePath.with_suffix(suffix): the suffix of the name replaced, or the new
\* one appended to a name that has none.
with_suffix(path, suffix) ==
    SubSeq(path, 1, Len(path) - Len(PathSuffix(path))) \o suffix

\* ------------------------------------------------------------------------
\* The assembling of the output in process_pdf
\* ------------------------------------------------------------------------

\* page_content with the pages counted from 0 (enumerate without start=1).
page_content_from_zero(i, transcription) ==
    <<"#", " ", "P", "a", "g", "e", " ">> \o Str(i - 1) \o <<"\n", "\n">>
    \o transcription \o <<"\n", "\n">> \o Repeat("=", SeparatorWidth) \o <<"\n">>

\* f"# Page {i}\n\n{transcription}\n\n{'='*80}\n"
page_content(i, transcription) ==
    <<"#", " ", "P", "a", "g", "e", " ">> \o Str(i) \o <<"\n", "\n">>
    \o transcription \o <<"\n", "\n">> \o Repeat("=", SeparatorWidth) \o <<"\n">>

RECURSIVE JoinEmpty(_)
\* "".join(parts): the blocks with nothing between them.
JoinEmpty(parts) ==
    IF Len(parts) = 0 THEN <<>> ELSE parts[1] \o JoinEmpty(Tail(parts))

RECURSIVE JoinNewline(_)
\* "\n".join(parts)
JoinNewline(parts) ==
    IF Len(parts) = 0 THEN <<>>
    ELSE IF Len(parts) = 1 THEN parts[1]
    ELSE parts[1] \o <<"\n">> \o JoinNewline(Tail(parts))

\* process_pdf without the check of the credential.
CredentialMissing_unchecked(key) == FALSE

\* not ANTHROPIC_API_KEY: the variable is unset (None) or set to "".
CredentialMissing(key) == key = None \/ key[1] = <<>>

\* The path process_pdf writes: "if output_path:" is false for None and for
\* "", and then the path is pdf_path.with_suffix('.md').
TargetPath(pdf_path, output_path) ==
    IF output_path # None /\ output_path[1] # <<>>
    THEN output_path[1]
    ELSE with_suffix(pdf_path, <<".", "m", "d">>)

\* ------------------------------------------------------------------------
\* pdf_to_images
\* ------------------------------------------------------------------------

\* The bitmap of page k of a document.
Bitmap(k) == <<k, 255 - k>>

\* The exceptions of the rasterization library.
LibraryErrors == {"PDFInfoNotInstalledError", "PDFPageCountError", "PDFSyntaxError"}

\* convert_from_path(pdf_path, ...): what the library call can come to for a
\* document. A file that is no valid document makes it raise; a valid one is
\* rendered page by page, in order, unless the rasterization fails.
convert_from_path(document) ==
    {Raise(e) : e \in LibraryErrors}
    \cup (IF document.valid
          THEN {Return([k \in 1..document.pages |-> Bitmap(k)])}
          ELSE {})

\* pdf_to_images with a handler that raises an error of its own instead.
pdf_to_images_wrapping(converted) ==
    IF converted.raised THEN Raise("RenderError") ELSE Return(converted.value)

\* pdf_to_images has no try block: what convert_from_path raises leaves it
\* unchanged, and what it returns is returned. (process_pdf passes no
\* output_dir, so the saving of the page images never runs.)
pdf_to_images(converted) ==
    IF converted.raised THEN Raise(converted.exc) ELSE Return(converted.value)

\* ------------------------------------------------------------------------
\* The inputs of a run
\* ------------------------------------------------------------------------

ScriptName == <<"s", ".", "p", "y">>
InputPaths == {<<"a", ".", "p", "d", "f">>, <<"d", ".", "x", "/", "a">>}
OutputArgs == {<<>>, <<"o", ".", "m", "d">>}
Keys == {None, Some(<<>>), Some(<<"s", "k">>)}

Argvs ==
    {<<ScriptName>>}
    \cup {<<ScriptName, p>> : p \in InputPaths}
    \cup {<<ScriptName, p, o>> : p \in InputPaths, o \in OutputArgs}

Documents ==
    {[valid |-> FALSE, pages |-> 0]}
    \cup {[valid |-> TRUE, pages |-> n] : n \in 0..MaxPages}

Paths ==
    InputPaths \cup (OutputArgs \ {<<>>})
    \cup {with_suffix(p, <<".", "m", "d">>) : p \in InputPaths}

OldText == <<"o", "l", "d">>

Responses ==
    { JsonResponse(Some(<<Block(Some(<<"H", "e", "l", "l", "o">>))>>)),
      JsonResponse(Some(<<Block(Some(<<"H", "i">>)), Block(Some(<<"x">>))>>)),
      JsonResponse(Some(<<Block(None)>>)),
      JsonResponse(Some(<<>>)),
      JsonResponse(None),
      HttpError(529, <<98, 117, 115, 121>>),
      HttpError(502, <<255>>),
      OtherException(<<"t", "i", "m", "e", "d", " ", "o", "u", "t">>) }

\* ------------------------------------------------------------------------
\* State
\* ------------------------------------------------------------------------

VARIABLES
    argv,               \* sys.argv
    ANTHROPIC_API_KEY,  \* os.environ.get("ANTHROPIC_API_KEY")
    document,           \* what the file at the input path holds
    disk,               \* path -> None (no file) or Some(text of the file)
    disk0,              \* the disk as the run found it
    pc,                 \* where the run is
    pdf_path,           \* process_pdf's parameters
    output_path,
    images,             \* the list pdf_to_images returned
    i,                  \* the page of the loop of process_pdf
    image_base64,       \* the loop's current payload
    transcriptions,     \* what transcribe_image returned, call by call
    all_transcriptions,
    full_output,
    requests,           \* the requests handed to urlopen, in order
    responses,          \* what each of them came to, in order
    events,             \* the steps taken: [op, page]
    writes,             \* the writes of files: [path, text]
    exit_code,          \* None while the process runs
    uncaught            \* the exception that ended the run, or None

vars ==
    <<argv, ANTHROPIC_API_KEY, document, disk, disk0, pc, pdf_path, output_path,
      images, i, image_base64, transcriptions, all_transcriptions, full_output,
      requests, responses, events, writes, exit_code, uncaught>>

inputs == <<argv, ANTHROPIC_API_KEY, document, disk0>>
locals ==
    <<images, i, image_base64, transcriptions, all_transcriptions, full_output>>

\* Path.exists() that is true of every path.
Exists_always(path) == TRUE

\* Path.exists()
Exists(path) == disk[path] # None

Init ==
    /\ argv \in Argvs
    /\ ANTHROPIC_API_KEY \in Keys
    /\ \E present \in BOOLEAN, old \in BOOLEAN :
         /\ document \in (IF present /\ Len(argv) >= 2
                          THEN Documents ELSE {[valid |-> FALSE, pages |-> 0]})
         /\ disk = [p \in Paths |->
                      IF Len(argv) >= 2 /\ p = argv[2]
                      THEN (IF present THEN Some(<<"%", "P", "D", "F">>) ELSE None)
                      ELSE (IF old THEN Some(OldText) ELSE None)]
    /\ disk0 = disk
    /\ pc = "main"
    /\ pdf_path = <<>>
    /\ output_path = None
    /\ images = <<>>
    /\ i = 0
    /\ image_base64 = <<>>
    /\ transcriptions = <<>>
    /\ all_transcriptions = <<>>
    /\ full_output = <<>>
    /\ requests = <<>>
    /\ responses = <<>>
    /\ events = <<>>
    /\ writes = <<>>
    /\ exit_code = None
    /\ uncaught = None

\* sys.exit(code)
Exit(code) ==
    /\ pc' = "exited"
    /\ exit_code' = Some(code)
    /\ uncaught' = None

\* An exception no handler catches: the interpreter prints the traceback and
\* the process ends with status 1.
Abort(exc) ==
    /\ pc' = "exited"
    /\ exit_code' = Some(1)
    /\ uncaught' = Some(exc)

\* main, up to the call of process_pdf. argv[1] is sys.argv[0].
Main ==
    /\ pc = "main"
    /\ IF Len(argv) < 2
       THEN /\ Exit(1)
            /\ UNCHANGED <<pdf_path, output_path>>
       ELSE /\ pdf_path' = argv[2]
            /\ output_path' = IF Len(argv) > 2 THEN Some(argv[3]) ELSE None
            /\ pc' = "process_pdf"
            /\ UNCHANGED <<exit_code, uncaught>>
    /\ UNCHANGED <<inputs, disk, locals, requests, responses, events,
                   writes>>

\* process_pdf: the check of the credential.
CheckCredential ==
    /\ pc = "process_pdf"
    /\ IF CredentialMissing(ANTHROPIC_API_KEY)
       THEN Exit(1)
       ELSE pc' = "check_path" /\ UNCHANGED <<exit_code, uncaught>>
    /\ UNCHANGED <<inputs, disk, pdf_path, output_path, locals, requests, responses, events,
                   writes>>

\* process_pdf: the check of the input path.
CheckPath ==
    /\ pc = "check_path"
    /\ IF ~Exists(pdf_path)
       THEN Exit(1)
       ELSE pc' = "pdf_to_images" /\ UNCHANGED <<exit_code, uncaught>>
    /\ UNCHANGED <<inputs, disk, pdf_path, output_path, locals, requests, responses, events,
                   writes>>

Event(op, page) == [op |-> op, page |-> page]

\* process_pdf: images = pdf_to_images(pdf_path). Every page is rendered in
\* this one call, before the loop starts.
PdfToImages ==
    /\ pc = "pdf_to_images"
    /\ \E converted \in convert_from_path(document) :
         LET r == pdf_to_images(converted) IN
         IF r.raised
         THEN /\ Abort(r.exc)
              /\ events' = Append(events, Event("pdf_to_images", 0))
              /\ UNCHANGED <<images, i>>
         ELSE /\ images' = r.value
              /\ i' = 1
              /\ events' = Append(events, Event("pdf_to_images", 0))
                           \o [k \in 1..Len(r.value) |-> Event("render", k)]
              /\ pc' = "loop"
              /\ UNCHANGED <<exit_code, uncaught>>
    /\ UNCHANGED <<inputs, disk, pdf_path, output_path, image_base64,
                   transcriptions, all_transcriptions, full_output, requests,
                   responses, writes>>

\* The loop of process_pdf, a page left: image_base64 = image_to_base64(image).
EncodePage ==
    /\ pc = "loop"
    /\ i <= Len(images)
    /\ image_base64' = image_to_base64(images[i])
    /\ events' = Append(events, Event("encode", i))
    /\ pc' = "transcribe_image"
    /\ UNCHANGED <<inputs, disk, pdf_path, output_path, images, i, transcriptions,
                   all_transcriptions, full_output, requests, responses, writes,
                   exit_code, uncaught>>

\* A request that is sent and not waited for: the loop goes on to the next
\* page at once.
SendRequest_no_wait ==
    /\ pc = "transcribe_image"
    /\ requests' = Append(requests, Request(image_base64, ANTHROPIC_API_KEY))
    /\ events' = Append(events, Event("request", i))
    /\ i' = i + 1
    /\ pc' = "loop"
    /\ UNCHANGED <<inputs, disk, pdf_path, output_path, images, image_base64,
                   transcriptions, all_transcriptions, full_output, responses,
                   writes, exit_code, uncaught>>

\* transcribe_image, up to the call of urlopen: the request is built and sent.
SendRequest ==
    /\ pc = "transcribe_image"
    /\ requests' = Append(requests, Request(image_base64, ANTHROPIC_API_KEY))
    /\ events' = Append(events, Event("request", i))
    /\ pc' = "urlopen"
    /\ UNCHANGED <<inputs, disk, pdf_path, output_path, locals, responses, writes,
                   exit_code, uncaught>>

\* A loop body that saves the output so far after every page.
ReceiveResponse_checkpointing ==
    /\ pc = "urlopen"
    /\ \E resp \in Responses :
         /\ responses' = Append(responses, resp)
         /\ LET r == transcribe_image(resp, i)
                target == TargetPath(pdf_path, output_path)
                so_far == JoinNewline(Append(all_transcriptions,
                                             page_content(i, r.value)))
            IN
            IF r.raised
            THEN /\ Abort(r.exc)
                 /\ UNCHANGED <<i, transcriptions, all_transcriptions, disk, writes>>
            ELSE /\ transcriptions' = Append(transcriptions, r.value)
                 /\ all_transcriptions' =
                        Append(all_transcriptions, page_content(i, r.value))
                 /\ disk' = [disk EXCEPT ![target] = Some(so_far)]
                 /\ writes' = Append(writes, [path |-> target, text |-> so_far])
                 /\ i' = i + 1
                 /\ pc' = "loop"
                 /\ UNCHANGED <<exit_code, uncaught>>
    /\ events' = Append(events, Event("response", i))
    /\ UNCHANGED <<inputs, pdf_path, output_path, images, image_base64,
                   full_output, requests>>

\* transcribe_image from the return of urlopen on, and the rest of the loop
\* body: the page's block is appended and the loop goes to the next page. An
\* exception that leaves transcribe_image leaves process_pdf and main too.
ReceiveResponse ==
    /\ pc = "urlopen"
    /\ \E resp \in Responses :
         /\ responses' = Append(responses, resp)
         /\ LET r == transcribe_image(resp, i) IN
            IF r.raised
            THEN /\ Abort(r.exc)
                 /\ UNCHANGED <<i, transcriptions, all_transcriptions>>
            ELSE /\ transcriptions' = Append(transcriptions, r.value)
                 /\ all_transcriptions' =
                        Append(all_transcriptions, page_content(i, r.value))
                 /\ i' = i + 1
                 /\ pc' = "loop"
                 /\ UNCHANGED <<exit_code, uncaught>>
    /\ events' = Append(events, Event("response", i))
    /\ UNCHANGED <<inputs, disk, pdf_path, output_path, images, image_base64,
                   full_output, requests, writes>>

\* The loop of process_pdf is over: full_output = "\n".join(all_transcriptions).
Join ==
    /\ pc = "loop"
    /\ i > Len(images)
    /\ full_output' = JoinNewline(all_transcriptions)
    /\ pc' = "write"
    /\ UNCHANGED <<inputs, disk, pdf_path, output_path, images, i, image_base64,
                   transcriptions, all_transcriptions, requests, responses, events,
                   writes, exit_code, uncaught>>

\* process_pdf: output_path.write_text(full_output), on either branch.
WriteOutput ==
    /\ pc = "write"
    /\ LET target == TargetPath(pdf_path, output_path) IN
         /\ disk' = [disk EXCEPT ![target] = Some(full_output)]
         /\ writes' = Append(writes, [path |-> target, text |-> full_output])
    /\ events' = Append(events, Event("write", 0))
    /\ pc' = "return"
    /\ UNCHANGED <<inputs, pdf_path, output_path, locals, requests, responses,
                   exit_code, uncaught>>

\* process_pdf returns, main prints its last line and the process ends.
Finish ==
    /\ pc = "return"
    /\ Exit(0)
    /\ UNCHANGED <<inputs, disk, pdf_path, output_path, locals, requests, responses,
                   events, writes>>

Next ==
    \/ Main
    \/ CheckCredential
    \/ CheckPath
    \/ PdfToImages
    \/ EncodePage
    \/ SendRequest
    \/ ReceiveResponse
    \/ Join
    \/ WriteOutput
    \/ Finish

Spec == Init /\ [][Next]_vars

\* ------------------------------------------------------------------------
\* Properties
\* ------------------------------------------------------------------------

Hello == <<"H", "e", "l", "l", "o">>

\* The header of section k, with the blank line after it.
HeaderOf(k) == <<"#", " ", "P", "a", "g", "e", " ">> \o Str(k) \o <<"\n", "\n">>

\* What follows a section's body: a blank line, 80 '=' and a newline.
Trailer == <<"\n", "\n">> \o [j \in 1..80 |-> "="] \o <<"\n">>

Section(k, body) == HeaderOf(k) \o body \o Trailer

\* A response that carries a transcription, and the transcription.
IsText(resp) ==
    /\ resp.kind = "json"
    /\ resp.content # None
    /\ Len(resp.content[1]) > 0
    /\ resp.content[1][1].text # None
TextOf(resp) == resp.content[1][1].text[1]

RECURSIVE SectionStart(_, _)
\* The number of characters of a document before its section k, the bodies of
\* the sections being bodies[1], bodies[2], ...
SectionStart(bodies, k) ==
    IF k = 1 THEN 0
    ELSE SectionStart(bodies, k - 1) + Len(Section(k - 1, bodies[k - 1])) + 1

\* C1: a run that reaches the write has one block per rendered page, whatever
\* the requests came to: the k-th request carries the k-th page's image, the
\* k-th block is headed "# Page k" and its body is what transcribe_image
\* returned for that request, and the written text holds these N sections at
\* consecutive places, in page order, and nothing else.
C1_SectionsInPageOrder ==
    writes # <<>> =>
      LET n == document.pages
          text == writes[1].text
      IN
      /\ Len(images) = n
      /\ Len(requests) = n
      /\ Len(responses) = n
      /\ Len(transcriptions) = n
      /\ Len(all_transcriptions) = n
      /\ \A k \in 1..n :
           /\ images[k] = Bitmap(k)
           /\ requests[k].data = image_to_base64(Bitmap(k))
           /\ transcriptions[k] = transcribe_image(responses[k], k).value
           /\ all_transcriptions[k] = Section(k, transcriptions[k])
           /\ SubSeq(text, SectionStart(transcriptions, k) + 1,
                     SectionStart(transcriptions, k)
                       + Len(Section(k, transcriptions[k])))
                = Section(k, transcriptions[k])
      /\ Len(text) = IF n = 0 THEN 0 ELSE SectionStart(transcriptions, n + 1) - 1

\* C1 witness: a written document of at least two pages, the first of them
\* failed (an empty content list) and the second transcribed.
C1_Witness ==
    /\ writes # <<>>
    /\ Len(images) >= 2
    /\ responses[1] = JsonResponse(Some(<<>>))
    /\ IsText(responses[2])

\* The three page document of C2: the request of page 2 raised, the requests
\* of pages 1 and 3 (as far as they are answered) brought a transcription.
C2_Scenario ==
    /\ Len(images) = 3
    /\ Len(responses) >= 2
    /\ responses[2].kind = "exc"
    /\ \A k \in 1..Len(responses) : k # 2 => IsText(responses[k])

C3_TranscriberNeverAborts ==
    /\ \A k \in 1..Len(responses) :
         ~IsText(responses[k]) =>
           /\ Len(transcriptions) >= k
           /\ Contains(transcriptions[k], <<"p", "a", "g", "e", " ">> \o Str(k))
           /\ responses[k].kind = "http" =>
                Contains(transcriptions[k], Str(responses[k].code))
           /\ responses[k].kind = "exc" =>
                Contains(transcriptions[k], responses[k].msg)
    /\ (pc = "exited" /\ requests # <<>>) =>
         /\ exit_code = Some(0)
         /\ uncaught = None
         /\ Len(writes) = 1

\* C4: with the credential unset and a path given, the run goes from main to
\* the credential check and exits with status 1: the renderer is not called,
\* nothing is sent and no file is written.
C4_NoCredentialNoIO ==
    (ANTHROPIC_API_KEY = None /\ Len(argv) >= 2) =>
      /\ pc \in {"main", "process_pdf", "exited"}
      /\ events = <<>>
      /\ requests = <<>>
      /\ writes = <<>>
      /\ disk = disk0
      /\ pc = "exited" => exit_code = Some(1) /\ uncaught = None

\* C4 witness: such a run has exited, though its document was there to process.
C4_Witness ==
    /\ ANTHROPIC_API_KEY = None
    /\ Len(argv) >= 2
    /\ document.valid
    /\ document.pages >= 1
    /\ pc = "exited"

\* C5: with the credential set and no file at the input path, the run exits
\* with status 1 without calling pdf_to_images: no page is rendered or sent and
\* no file is written.
C5_MissingInputExitsBeforeRenderer ==
    (ANTHROPIC_API_KEY # None /\ Len(argv) >= 2 /\ disk0[argv[2]] = None) =>
      /\ pc \in {"main", "process_pdf", "check_path", "exited"}
      /\ events = <<>>
      /\ images = <<>>
      /\ requests = <<>>
      /\ transcriptions = <<>>
      /\ writes = <<>>
      /\ disk = disk0
      /\ pc = "exited" => exit_code = Some(1) /\ uncaught = None

\* C5 witness: a run with a usable credential has exited at the path check.
C5_Witness ==
    /\ ANTHROPIC_API_KEY = Some(<<"s", "k">>)
    /\ Len(argv) >= 2
    /\ disk0[argv[2]] = None
    /\ pc = "exited"

RECURSIVE ExpectedDocument(_, _)
\* The sections k, k+1, ... of the bodies, a newline between two of them.
ExpectedDocument(bodies, k) ==
    IF k > Len(bodies) THEN <<>>
    ELSE <<"#", " ", "P", "a", "g", "e", " ">> \o Str(k) \o <<"\n", "\n">>
         \o bodies[k] \o <<"\n", "\n">> \o [j \in 1..80 |-> "="] \o <<"\n">>
         \o (IF k < Len(bodies) THEN <<"\n">> ELSE <<>>)
         \o ExpectedDocument(bodies, k + 1)

\* C6: the text written is, for the transcriptions t_1..t_N, the blocks
\* "# Page k\n\n" t_k "\n\n" 80 '=' "\n" with one "\n" between two blocks and
\* nothing after the last, and the file holds that text; for the one page
\* document transcribed as "Hello" it is "# Page 1\n\nHello\n\n" 80 '=' "\n".
C6_OutputFormat ==
    writes # <<>> =>
      /\ writes[1].text = ExpectedDocument(transcriptions, 1)
      /\ disk[writes[1].path] = Some(ExpectedDocument(transcriptions, 1))
      /\ transcriptions = <<Hello>> =>
           writes[1].text =
             <<"#", " ", "P", "a", "g", "e", " ", "1", "\n", "\n",
               "H", "e", "l", "l", "o", "\n", "\n">>
             \o [j \in 1..80 |-> "="] \o <<"\n">>

\* C6 witness: the one page document transcribed as "Hello" has been written.
C6_Witness == writes # <<>> /\ transcriptions = <<Hello>>

\* C6 witness of the join: a document of two pages or more has been written.
C6_WitnessJoin == writes # <<>> /\ Len(transcriptions) >= 2

\* The input path with its suffix replaced by ".md", path by path.
ExpectedDefault(path) ==
    CASE path = <<"a", ".", "p", "d", "f">> -> <<"a", ".", "m", "d">>
      [] path = <<"d", ".", "x", "/", "a">> ->
             <<"d", ".", "x", "/", "a", ".", "m", "d">>

\* Every path but the given one holds what it held when the run started.
OnlyWritten(path) == \A p \in DOMAIN disk : p # path => disk[p] = disk0[p]

\* C7 as the claim states it: the one path written is the output argument when
\* there is one, and the input path with the suffix ".md" otherwise.
C7_ExplicitPathWhenSupplied ==
    /\ Len(writes) <= 1
    /\ writes # <<>> =>
         /\ writes[1].path =
              IF Len(argv) > 2 THEN argv[3] ELSE ExpectedDefault(argv[2])
         /\ disk[writes[1].path] = Some(writes[1].text)
         /\ OnlyWritten(writes[1].path)

\* C7 amended: the one path written is the output argument when there is one
\* and it is not the empty string, and the input path with the suffix ".md"
\* otherwise; the file there holds the new text afterwards, whatever it held,
\* and no other path changes.
C7_ExplicitPathWhenNonEmpty ==
    /\ Len(writes) <= 1
    /\ writes = <<>> => disk = disk0
    /\ writes # <<>> =>
         /\ writes[1].path =
              IF Len(argv) > 2 /\ argv[3] # <<>>
              THEN argv[3] ELSE ExpectedDefault(argv[2])
         /\ disk[writes[1].path] = Some(writes[1].text)
         /\ OnlyWritten(writes[1].path)

\* C7 witness: an output argument was given and the file it names, which held
\* an older text, holds the new one.
C7_Witness ==
    /\ writes # <<>>
    /\ Len(argv) > 2
    /\ argv[3] # <<>>
    /\ disk0[argv[3]] = Some(OldText)
    /\ disk[argv[3]] = Some(writes[1].text)

\* The renderer was called and the run ended in it.
RendererFailed == uncaught # None /\ responses = <<>>

\* C8 as the claim states it: a file that is no valid document makes the
\* renderer fail, and what leaves a failing renderer is a RenderError.
C8_RenderErrorOnly ==
    /\ ~document.valid => images = <<>> /\ pc \notin {"loop", "write", "return"}
    /\ RendererFailed => uncaught = Some("RenderError")

\* C8 amended: a file that is no valid document makes the renderer fail, and
\* what leaves a failing renderer is the exception the rasterization library
\* raised, unchanged; it ends the run with status 1 before any request or
\* write.
C8_LibraryErrorEscapes ==
    /\ ~document.valid =>
         /\ images = <<>>
         /\ pc \notin {"loop", "transcribe_image", "urlopen", "write", "return"}
         /\ exit_code # Some(0)
    /\ RendererFailed =>
         /\ uncaught[1] \in LibraryErrors
         /\ exit_code = Some(1)
         /\ events = <<Event("pdf_to_images", 0)>>
         /\ requests = <<>>
         /\ writes = <<>>

\* C8 witness: the renderer was called on a file that is no valid document
\* and the run ended in it.
C8_Witness ==
    /\ RendererFailed
    /\ ~document.valid
    /\ disk0[argv[2]] # None

\* Some earlier step is the response of the page before the page of step a.
AfterResponseOfPrevious(a) ==
    \E b \in 1..(a - 1) : events[b] = Event("response", events[a].page - 1)

\* C9 as the claim states it: no page is rendered, encoded or sent before the
\* response of the page before it has come.
C9_RenderEncodeTranscribePerPage ==
    \A a \in 1..Len(events) :
      (events[a].op \in {"render", "encode", "request"} /\ events[a].page > 1)
        => AfterResponseOfPrevious(a)

\* C9 amended: all pages are rendered first, in page order, in the one call
\* of pdf_to_images; from then on a page is encoded, then sent, then answered
\* before the next page is encoded, so at most one request is outstanding.
C9_EncodeTranscribePerPage ==
    /\ Len(requests) - Len(responses) \in {0, 1}
    /\ \A a \in 1..Len(events) :
         /\ events[a].op = "render" =>
              /\ a = events[a].page + 1
              /\ events[1].op = "pdf_to_images"
         /\ (events[a].op \in {"encode", "request"} /\ events[a].page > 1)
              => AfterResponseOfPrevious(a)
         /\ events[a].op = "encode" =>
              \A b \in 1..Len(images) : events[b + 1] = Event("render", b)
         /\ events[a].op = "request" =>
              events[a - 1] = Event("encode", events[a].page)
         /\ events[a].op = "response" =>
              events[a - 1] = Event("request", events[a].page)

\* C9 witness: two pages have gone through their encode, request and response.
C9_Witness == Len(responses) >= 2 /\ Len(images) >= 2

\* C10: there is at most one write; it comes after every page has been
\* transcribed and every completed run has made it; until then, and in a run
\* that an exception ends, the disk is as the run found it.
C10_WrittenOnceAtTheEnd ==
    /\ Len(writes) <= 1
    /\ writes # <<>> =>
         /\ Len(transcriptions) = Len(images)
         /\ Len(responses) = Len(images)
         /\ i = Len(images) + 1
         /\ pc \in {"return", "exited"}
    /\ writes = <<>> => disk = disk0
    /\ uncaught # None => writes = <<>>
    /\ exit_code = Some(0) => Len(writes) = 1

\* C10 witness: a run was ended by an exception after a page had been
\* transcribed, and nothing was written.
C10_Witness ==
    /\ uncaught # None
    /\ Len(transcriptions) >= 1
    /\ writes = <<>>
    /\ disk = disk0

====
